---- MODULE Spec2Model ----
(***************************************************************************)
(* RustScan, src/main.rs: the command-line driver around the scan engine.  *)
(*                                                                         *)
(* Three specifications share the variables below:                         *)
(*   SpecInfer  infer_batch_size applied to drawn (opts, ulimit) inputs    *)
(*   SpecParse  parse_addresses applied to drawn address lists             *)
(*   Spec       main(), one action per step of its body                    *)
(*                                                                         *)
(* rlimit::rlim is u64.  TLC's integers are 32 bits wide, so a u64 is kept *)
(* as four 16-bit limbs, least significant first, and the arithmetic of    *)
(* the code (+, -, /, <, as u16) is carried out on the limbs with its      *)
(* carries and borrows.  Rust checks + and - for overflow in builds with   *)
(* overflow checks (debug, test) and wraps in builds without (release):    *)
(* env.overflow_checks is the build, drawn in Init.                        *)
(***************************************************************************)
EXTENDS Integers, Sequences, FiniteSets, TLC

VARIABLES
    pc,          \* position of the program
    opts,        \* Opts after merge: addresses, batch_size, ulimit, greppable, no_nmap
    env,         \* the build and the machine: overflow checks, name service, files, nmap
    rlim,        \* the kernel's RLIMIT_NOFILE of the process: soft, hard
    ips,         \* main: ips
    warnings,    \* every warning! printed so far, in order
    ulimit,      \* main: ulimit, with the outcome of setrlimit
    infer,       \* the call of infer_batch_size: its argument and its outcome
    scanner,     \* the Scanner constructed, if any
    scan,        \* the runs of Scanner::run and the last scan_result
    report,      \* ports_per_ip, the lines printed, the nmap commands spawned
    exit_code    \* the exit status of the process, -1 while it runs

vars == <<pc, opts, env, rlim, ips, warnings, ulimit, infer, scanner, scan, report, exit_code>>

-----------------------------------------------------------------------------
(* Bounds of the model *)

\* Inputs are drawn within Slack of each boundary value of the code.
Slack == 1
\* Length of opts.addresses.
MaxAddrs == 2
\* Lines of the hosts file.
MaxLines == 2
\* Addresses a name lookup answers with.
MaxAnswers == 2
\* Open sockets in a scan result.
MaxOpen == 2
\* Ports probed: 1..MaxPort.
MaxPort == 2

-----------------------------------------------------------------------------
(* u64 as four 16-bit limbs *)

Base == 2 ^ 16

\* A number below 2^31 as u64.
U64(n) == <<n % Base, (n \div Base) % Base, 0, 0>>

\* u64::MAX - d for a small d (the "unlimited" sentinel RLIM_INFINITY is d = 0).
U64MaxMinus(d) == <<Base - 1 - d, Base - 1, Base - 1, Base - 1>>

U64Lt(a, b) ==
    \/ a[4] < b[4]
    \/ a[4] = b[4] /\ a[3] < b[3]
    \/ a[4] = b[4] /\ a[3] = b[3] /\ a[2] < b[2]
    \/ a[4] = b[4] /\ a[3] = b[3] /\ a[2] = b[2] /\ a[1] < b[1]

U64Le(a, b) == ~U64Lt(b, a)

\* a + b modulo 2^64, and whether the sum left the 64 bits.
U64Add(a, b) ==
    LET s1 == a[1] + b[1]
        s2 == a[2] + b[2] + s1 \div Base
        s3 == a[3] + b[3] + s2 \div Base
        s4 == a[4] + b[4] + s3 \div Base
    IN [val |-> <<s1 % Base, s2 % Base, s3 % Base, s4 % Base>>,
        overflow |-> s4 \div Base > 0]

\* a - b modulo 2^64, and whether the difference fell below zero.
U64Sub(a, b) ==
    LET d1 == a[1] - b[1]
        b1 == IF d1 < 0 THEN 1 ELSE 0
        d2 == a[2] - b[2] - b1
        b2 == IF d2 < 0 THEN 1 ELSE 0
        d3 == a[3] - b[3] - b2
        b3 == IF d3 < 0 THEN 1 ELSE 0
        d4 == a[4] - b[4] - b3
    IN [val |-> <<d1 % Base, d2 % Base, d3 % Base, d4 % Base>>,
        overflow |-> d4 < 0]

\* a / 2.
U64Div2(a) ==
    <<a[1] \div 2 + (a[2] % 2) * (Base \div 2),
      a[2] \div 2 + (a[3] % 2) * (Base \div 2),
      a[3] \div 2 + (a[4] % 2) * (Base \div 2),
      a[4] \div 2>>

\* `x as u16`: the low 16 bits.
AsU16(a) == a[1]

-----------------------------------------------------------------------------
(* infer_batch_size *)

DEFAULT_FILE_DESCRIPTORS_LIMIT == 8000

AVERAGE_BATCH_SIZE == 3000

\* detail!(msg, greppable, accessible) formats msg only when it prints, and it
\* does not print in greppable mode.
DetailPrints(o) == ~o.greppable

\* The value the function ends with: a panic when a checked operation
\* overflowed, else the batch size cast to u16.
InferOutcome(val, overflowed, checks) ==
    [panicked |-> overflowed /\ checks,
     overflowed |-> overflowed,
     value |-> IF overflowed /\ checks THEN 0 ELSE AsU16(val)]

infer_batch_size(o, limit, checks) ==
    LET batch_size == U64(o.batch_size)
    IN IF U64Lt(limit, batch_size)
       THEN IF U64Lt(limit, U64(AVERAGE_BATCH_SIZE))
            THEN InferOutcome(U64Div2(limit), FALSE, checks)
            ELSE IF U64Lt(U64(DEFAULT_FILE_DESCRIPTORS_LIMIT), limit)
            THEN InferOutcome(U64(AVERAGE_BATCH_SIZE), FALSE, checks)
            ELSE LET d == U64Sub(limit, U64(100))
                 IN InferOutcome(d.val, d.overflow, checks)
       ELSE LET sum == U64Add(limit, U64(2))
                \* `ulimit + 2 > batch_size && opts.ulimit.is_none()`
                advisory == /\ ~(sum.overflow /\ checks)
                            /\ U64Lt(batch_size, sum.val)
                            /\ ~o.ulimit.some
                \* `ulimit - 100` inside the advisory's format!
                d == U64Sub(limit, U64(100))
                overflowed == sum.overflow \/ (advisory /\ DetailPrints(o) /\ d.overflow)
            IN InferOutcome(batch_size, overflowed, checks)

-----------------------------------------------------------------------------
(* parse_addresses and the functions below it *)

\* An entry of opts.addresses or a line of a hosts file is a string.  The model
\* keeps what the string denotes: a CIDR block (an IP literal is the block
\* with no host bits), or any other text, taken as a name.
Cidr(net, bits) == [kind |-> "cidr", net |-> net, bits |-> bits, name |-> ""]

Name(n) == [kind |-> "name", net |-> 0, bits |-> 0, name |-> n]

\* The addresses a lookup of name n answers with: k of them, all distinct.
Answers(n, k) ==
    LET first == CASE n = "localhost" -> 20
                   [] n = "dns.example" -> 30
                   [] OTHER -> 40
    IN [i \in 1 .. k |-> first + i - 1]

\* IpCidr::from_str
CidrFromStr(e) == e.kind = "cidr"

\* cidr.iter(): every address of the block, the network address first and the
\* broadcast address last.
CidrIter(e) == [i \in 1 .. 2 ^ e.bits |-> e.net + i - 1]

\* format!("{}:{}", address, 80).to_socket_addrs(): the system's lookup.
ToSocketAddrs(e) ==
    IF e.name \in env.sys_names
    THEN [ok |-> TRUE, addrs |-> Answers(e.name, env.answers)]
    ELSE [ok |-> FALSE, addrs |-> <<>>]

\* resolver.lookup_ip(): the trust-dns resolver.
LookupIp(e) ==
    IF e.name \in env.dns_names
    THEN [ok |-> TRUE, addrs |-> Answers(e.name, env.answers)]
    ELSE [ok |-> FALSE, addrs |-> <<>>]

resolve_ips_from_host(e) ==
    IF LookupIp(e).ok THEN LookupIp(e).addrs ELSE <<>>

\* Always Ok(ips): the Err arms of its callers are never taken.
parse_address(e) ==
    IF CidrFromStr(e)
    THEN CidrIter(e)
    ELSE IF ToSocketAddrs(e).ok
    THEN <<ToSocketAddrs(e).addrs[1]>>
    ELSE resolve_ips_from_host(e)

\* Path::is_file
IsFile(e) == e.kind = "name" /\ e.name \in DOMAIN env.files

\* File::open(path), and the lines BufReader yields.
FileOpen(e) ==
    IF IsFile(e) /\ env.files[e.name].readable
    THEN [ok |-> TRUE, lines |-> env.files[e.name].lines]
    ELSE [ok |-> FALSE, lines |-> <<>>]

RECURSIVE ReadLines(_, _)
ReadLines(lines, acc) ==
    IF lines = <<>> THEN acc
    ELSE ReadLines(Tail(lines), acc \o parse_address(Head(lines)))

read_ips_from_file(e) ==
    IF FileOpen(e).ok
    THEN [ok |-> TRUE, ips |-> ReadLines(FileOpen(e).lines, <<>>)]
    ELSE [ok |-> FALSE, ips |-> <<>>]

CouldNotBeResolved(e) == [text |-> "Host could not be resolved.", about |-> e.name]

\* The first loop: every address is parsed; the ones that yield nothing are
\* set aside.
RECURSIVE ParseLoop(_, _)
ParseLoop(addresses, st) ==
    IF addresses = <<>> THEN st
    ELSE LET address == Head(addresses)
             parsed_ips == parse_address(address)
         IN ParseLoop(Tail(addresses),
                IF parsed_ips # <<>>
                THEN [st EXCEPT !.ips = @ \o parsed_ips]
                ELSE [st EXCEPT !.unresolved_addresses = Append(@, address)])

\* FileLoop with a file's addresses put in front of those gathered so far.
RECURSIVE FileLoopInFront(_, _)
FileLoopInFront(unresolved, st) ==
    IF unresolved = <<>> THEN st
    ELSE LET file_path == Head(unresolved)
             x == read_ips_from_file(file_path)
         IN FileLoopInFront(Tail(unresolved),
                IF ~IsFile(file_path)
                THEN [st EXCEPT !.warnings = Append(@, CouldNotBeResolved(file_path))]
                ELSE IF x.ok
                THEN [st EXCEPT !.ips = x.ips \o @]
                ELSE [st EXCEPT !.warnings = Append(@, CouldNotBeResolved(file_path))])

\* The second loop: what was set aside is a file path or wrong input.
RECURSIVE FileLoop(_, _)
FileLoop(unresolved, st) ==
    IF unresolved = <<>> THEN st
    ELSE LET file_path == Head(unresolved)
             x == read_ips_from_file(file_path)
         IN FileLoop(Tail(unresolved),
                IF ~IsFile(file_path)
                THEN [st EXCEPT !.warnings = Append(@, CouldNotBeResolved(file_path))]
                ELSE IF x.ok
                THEN [st EXCEPT !.ips = @ \o x.ips]
                ELSE [st EXCEPT !.warnings = Append(@, CouldNotBeResolved(file_path))])

parse_addresses(input) ==
    LET first == ParseLoop(input.addresses,
                     [ips |-> <<>>, unresolved_addresses |-> <<>>, warnings |-> <<>>])
        second == FileLoop(first.unresolved_addresses, first)
    IN [ips |-> second.ips, warnings |-> second.warnings]

-----------------------------------------------------------------------------
(* adjust_ulimit_size *)

SetUlimitFailed == [text |-> "ERROR. Failed to set ulimit value.", about |-> ""]

\* setrlimit(Resource::NOFILE, limit, limit): the kernel sets both limits, or
\* refuses and changes nothing.
setrlimit(r, limit, granted) ==
    IF granted THEN [soft |-> limit, hard |-> limit] ELSE r

\* getrlimit(Resource::NOFILE): (soft, hard); the code keeps the soft limit.
getrlimit(r) == r.soft

\* The kernel always lets a process lower its limits or keep them; raising the
\* hard limit is granted to a privileged process only.
MayGrant(r, limit) == {TRUE} \cup (IF U64Le(limit, r.hard) THEN {} ELSE {FALSE})

\* adjust_ulimit_size returning the limit asked for instead of reading it back.
adjust_ulimit_size_no_readback(o, r, granted) ==
    LET after == IF o.ulimit.some THEN setrlimit(r, o.ulimit.val, granted) ELSE r
    IN [rlim |-> after,
        setrlimit |-> IF ~o.ulimit.some THEN "none" ELSE IF granted THEN "ok" ELSE "err",
        warnings |-> IF o.ulimit.some /\ ~granted THEN <<SetUlimitFailed>> ELSE <<>>,
        value |-> IF o.ulimit.some THEN o.ulimit.val ELSE getrlimit(after)]

adjust_ulimit_size(o, r, granted) ==
    LET after == IF o.ulimit.some THEN setrlimit(r, o.ulimit.val, granted) ELSE r
    IN [rlim |-> after,
        setrlimit |-> IF ~o.ulimit.some THEN "none" ELSE IF granted THEN "ok" ELSE "err",
        warnings |-> IF o.ulimit.some /\ ~granted THEN <<SetUlimitFailed>> ELSE <<>>,
        value |-> getrlimit(after)]

-----------------------------------------------------------------------------
(* Scanner and the report of main *)

Range(f) == {f[i] : i \in DOMAIN f}

Socket(ip, port) == [ip |-> ip, port |-> port]

\* Scanner::run: the open sockets found among hosts x ports, each once, in the
\* order the probes happened to answer.
ScanResults(hosts) ==
    LET sockets == {Socket(ip, port) : ip \in Range(hosts), port \in 1 .. MaxPort}
    IN UNION {{r \in [1 .. n -> sockets] : \A i, j \in 1 .. n : i # j => r[i] # r[j]} :
              n \in 0 .. MaxOpen}

\* ports_per_ip.entry(socket.ip()).or_insert_with(Vec::new).push(socket.port())
RECURSIVE PushPorts(_, _)
PushPorts(scan_result, ports_per_ip) ==
    IF scan_result = <<>> THEN ports_per_ip
    ELSE LET socket == Head(scan_result)
             entry == IF socket.ip \in DOMAIN ports_per_ip
                      THEN ports_per_ip[socket.ip] ELSE <<>>
         IN PushPorts(Tail(scan_result),
                [ip \in DOMAIN ports_per_ip \cup {socket.ip} |->
                    IF ip = socket.ip THEN Append(entry, socket.port)
                    ELSE ports_per_ip[ip]])

NoOpenPorts(ip) == [text |-> "Looks like I didn't find any open ports.", about |-> ip]

\* `for ip in ips`: a warning for every host without an entry.
RECURSIVE WarnClosed(_, _)
WarnClosed(hosts, ports_per_ip) ==
    IF hosts = <<>> THEN <<>>
    ELSE (IF Head(hosts) \in DOMAIN ports_per_ip THEN <<>> ELSE <<NoOpenPorts(Head(hosts))>>)
         \o WarnClosed(Tail(hosts), ports_per_ip)

\* The orders ports_per_ip.iter_mut() may visit the map in.
IterOrders(ports_per_ip) ==
    LET keys == DOMAIN ports_per_ip
        n == Cardinality(keys)
    IN {o \in [1 .. n -> keys] : \A i, j \in 1 .. n : i # j => o[i] # o[j]}

\* ports.into_iter().map(to_string).collect().join(","): the ports as they are
\* stored, first to last.
PortsStr(ports) == ports

\* One line or one nmap command per entry, in the order of the iteration.
Lines(order, ports_per_ip) ==
    [i \in DOMAIN order |-> [ip |-> order[i], ports |-> PortsStr(ports_per_ip[order[i]])]]

-----------------------------------------------------------------------------
(* The inputs drawn, and the state before anything ran *)

Near(n) == {m \in n - Slack .. n + Slack : m >= 0}

\* opts.batch_size is u16.
BatchSizes ==
    {b \in UNION {Near(n) : n \in {0, 10, 100, 3000, 4500, 8000, 50000, 65535}} : b <= 65535}

\* Open-file limits: around every boundary of the code, and up to u64::MAX.
Limits ==
    {U64(n) : n \in UNION {Near(n) : n \in {0, 100, 120, 3000, 5000, 8000, 9000,
                                             65535, 1000000}}}
    \cup {U64MaxMinus(d) : d \in 0 .. Slack + 1}

SeqsUpTo(S, n) == UNION {[1 .. k -> S] : k \in 0 .. n}

NoUlimit == [some |-> FALSE, val |-> U64(0)]

SomeUlimit(n) == [some |-> TRUE, val |-> U64(n)]

\* The machine: which names the system lookup and the DNS resolver know, and
\* the files there are.
Machine(checks, answers, lines) ==
    [overflow_checks |-> checks,
     answers |-> answers,
     sys_names |-> {"localhost"},
     dns_names |-> {"dns.example"},
     files |-> ("hosts.txt" :> [readable |-> TRUE, lines |-> lines]
                @@ "locked.txt" :> [readable |-> FALSE, lines |-> <<>>])]

\* What a line of a hosts file can be.
LineEntries ==
    {Cidr(3, 0), Cidr(16, 1), Name("localhost"), Name("dns.example"), Name("im_wrong")}

\* What an entry of opts.addresses can be.
CmdEntries ==
    {Cidr(1, 0), Cidr(8, 2), Name("localhost"), Name("dns.example"), Name("im_wrong"),
     Name("hosts.txt"), Name("locked.txt")}

NotCalled == [called |-> FALSE, limit |-> U64(0), out |-> InferOutcome(U64(0), FALSE, FALSE)]

NoScanner == [built |-> FALSE, batch_size |-> 0, ips |-> <<>>]

NoScan == [runs |-> 0, result |-> <<>>]

NoReport == [grouped |-> FALSE, ports_per_ip |-> <<>>, printed |-> <<>>, nmap |-> <<>>]

Idle ==
    /\ ips = <<>>
    /\ warnings = <<>>
    /\ infer = NotCalled
    /\ scanner = NoScanner
    /\ scan = NoScan
    /\ report = NoReport
    /\ exit_code = -1

-----------------------------------------------------------------------------
(* SpecInfer: infer_batch_size on its own *)

InitInfer ==
    /\ pc = "infer_entry"
    /\ \E b \in BatchSizes, given \in BOOLEAN, g \in BOOLEAN :
          opts = [addresses |-> <<>>, batch_size |-> b,
                  ulimit |-> IF given THEN SomeUlimit(5000) ELSE NoUlimit,
                  greppable |-> g, no_nmap |-> FALSE]
    /\ \E checks \in BOOLEAN : env = Machine(checks, 1, <<>>)
    /\ \E l \in Limits : ulimit = [value |-> l, setrlimit |-> "none"]
    /\ rlim = [soft |-> ulimit.value, hard |-> ulimit.value]
    /\ Idle

CallInfer ==
    /\ pc = "infer_entry"
    /\ LET out == infer_batch_size(opts, ulimit.value, env.overflow_checks)
       IN /\ infer' = [called |-> TRUE, limit |-> ulimit.value, out |-> out]
          /\ pc' = IF out.panicked THEN "panicked" ELSE "infer_returned"
    /\ UNCHANGED <<opts, env, rlim, ips, warnings, ulimit, scanner, scan, report, exit_code>>

NextInfer == CallInfer

SpecInfer == InitInfer /\ [][NextInfer]_vars

-----------------------------------------------------------------------------
(* SpecParse: parse_addresses on its own *)

InitParse ==
    /\ pc = "parse_entry"
    /\ \E a \in SeqsUpTo(CmdEntries, MaxAddrs), g \in BOOLEAN :
          opts = [addresses |-> a, batch_size |-> 4500, ulimit |-> NoUlimit,
                  greppable |-> g, no_nmap |-> FALSE]
    /\ \E k \in 1 .. MaxAnswers, lines \in SeqsUpTo(LineEntries, MaxLines) :
          env = Machine(TRUE, k, lines)
    /\ rlim = [soft |-> U64(1024), hard |-> U64(4096)]
    /\ ulimit = [value |-> U64(0), setrlimit |-> "none"]
    /\ Idle

CallParse ==
    /\ pc = "parse_entry"
    /\ LET r == parse_addresses(opts)
       IN /\ ips' = r.ips
          /\ warnings' = r.warnings
    /\ pc' = "parse_returned"
    /\ UNCHANGED <<opts, env, rlim, ulimit, infer, scanner, scan, report, exit_code>>

NextParse == CallParse

SpecParse == InitParse /\ [][NextParse]_vars

-----------------------------------------------------------------------------
(* Spec: main *)

NoIps == [text |-> "No IPs could be resolved, aborting scan.", about |-> ""]

\* The limits the process may start with: (soft, hard).
StartLimits ==
    {[soft |-> U64(1), hard |-> U64(4096)],
     [soft |-> U64(50), hard |-> U64(4096)],
     [soft |-> U64(1024), hard |-> U64(4096)],
     [soft |-> U64MaxMinus(0), hard |-> U64MaxMinus(0)]}

Init ==
    /\ pc = "main"
    /\ \E a \in SeqsUpTo({Cidr(2, 1), Name("im_wrong")}, MaxAddrs),
          b \in {0, 10, 4500},
          u \in {NoUlimit, SomeUlimit(50), SomeUlimit(5000)},
          g \in BOOLEAN, n \in BOOLEAN :
          opts = [addresses |-> a, batch_size |-> b, ulimit |-> u,
                  greppable |-> g, no_nmap |-> n]
    /\ \E checks \in BOOLEAN : env = Machine(checks, 1, <<>>)
    /\ rlim \in StartLimits
    /\ ulimit = [value |-> U64(0), setrlimit |-> "none"]
    /\ Idle

\* let ips = parse_addresses(&opts)
MainParseAddresses ==
    /\ pc = "main"
    /\ LET r == parse_addresses(opts)
       IN /\ ips' = r.ips
          /\ warnings' = warnings \o r.warnings
    /\ pc' = "parsed"
    /\ UNCHANGED <<opts, env, rlim, ulimit, infer, scanner, scan, report, exit_code>>

\* if ips.is_empty() { warning!(..); std::process::exit(1) }
MainNoIps ==
    /\ pc = "parsed"
    /\ ips = <<>>
    /\ warnings' = Append(warnings, NoIps)
    /\ exit_code' = 1
    /\ pc' = "exited"
    /\ UNCHANGED <<opts, env, rlim, ips, ulimit, infer, scanner, scan, report>>

\* let ulimit = adjust_ulimit_size(&opts)
MainAdjustUlimit ==
    /\ pc = "parsed"
    /\ ips # <<>>
    /\ \E granted \in MayGrant(rlim, opts.ulimit.val) :
          LET r == adjust_ulimit_size(opts, rlim, granted)
          IN /\ rlim' = r.rlim
             /\ warnings' = warnings \o r.warnings
             /\ ulimit' = [value |-> r.value, setrlimit |-> r.setrlimit]
    /\ pc' = "ulimit_adjusted"
    /\ UNCHANGED <<opts, env, ips, infer, scanner, scan, report, exit_code>>

\* let batch_size = infer_batch_size(&opts, ulimit); a panic ends the process
\* with status 101.
MainInferBatchSize ==
    /\ pc = "ulimit_adjusted"
    /\ LET out == infer_batch_size(opts, ulimit.value, env.overflow_checks)
       IN /\ infer' = [called |-> TRUE, limit |-> ulimit.value, out |-> out]
          /\ pc' = IF out.panicked THEN "panicked" ELSE "batch_inferred"
          /\ exit_code' = IF out.panicked THEN 101 ELSE exit_code
    /\ UNCHANGED <<opts, env, rlim, ips, warnings, ulimit, scanner, scan, report>>

\* let scanner = Scanner::new(&ips, batch_size, ..)
MainNewScanner ==
    /\ pc = "batch_inferred"
    /\ scanner' = [built |-> TRUE, batch_size |-> infer.out.value, ips |-> ips]
    /\ pc' = "scanner_built"
    /\ UNCHANGED <<opts, env, rlim, ips, warnings, ulimit, infer, scan, report, exit_code>>

\* let scan_result = block_on(scanner.run())
MainRunScan ==
    /\ pc = "scanner_built"
    /\ \E result \in ScanResults(scanner.ips) :
          scan' = [runs |-> scan.runs + 1, result |-> result]
    /\ pc' = "scanned"
    /\ UNCHANGED <<opts, env, rlim, ips, warnings, ulimit, infer, scanner, report, exit_code>>

\* The grouping of scan_result into ports_per_ip, and the warning for every
\* host that has no entry.
MainGroup ==
    /\ pc = "scanned"
    /\ LET ports_per_ip == PushPorts(scan.result, <<>>)
       IN /\ report' = [report EXCEPT !.grouped = TRUE, !.ports_per_ip = ports_per_ip]
          /\ warnings' = warnings \o WarnClosed(ips, ports_per_ip)
    /\ pc' = "grouped"
    /\ UNCHANGED <<opts, env, rlim, ips, ulimit, infer, scanner, scan, exit_code>>

\* The loop over ports_per_ip: a line per entry in greppable or no-nmap mode,
\* else an nmap process per entry; main returns.  A spawn that fails panics at
\* the first entry.
MainOutput ==
    /\ pc = "grouped"
    /\ \E order \in IterOrders(report.ports_per_ip), spawns \in BOOLEAN :
          LET lines == Lines(order, report.ports_per_ip)
              print == opts.greppable \/ opts.no_nmap
          IN IF print
             THEN /\ spawns
                  /\ report' = [report EXCEPT !.printed = lines]
                  /\ exit_code' = 0
                  /\ pc' = "exited"
             ELSE IF spawns \/ lines = <<>>
             THEN /\ spawns
                  /\ report' = [report EXCEPT !.nmap = lines]
                  /\ exit_code' = 0
                  /\ pc' = "exited"
             ELSE /\ report' = report
                  /\ exit_code' = 101
                  /\ pc' = "panicked"
    /\ UNCHANGED <<opts, env, rlim, ips, warnings, ulimit, infer, scanner, scan>>

Next ==
    \/ MainParseAddresses
    \/ MainNoIps
    \/ MainAdjustUlimit
    \/ MainInferBatchSize
    \/ MainNewScanner
    \/ MainRunScan
    \/ MainGroup
    \/ MainOutput

Spec == Init /\ [][Next]_vars

-----------------------------------------------------------------------------
(* Claims about infer_batch_size, under SpecInfer *)

\* A u64 that fits TLC's integers, and its value.
U64Small(a) == a[3] = 0 /\ a[4] = 0 /\ a[2] < 2 ^ 14

U64Nat(a) == a[1] + a[2] * Base

\* The table of the specification, top down, with AVG = 3000 and DEFAULT = 8000.
TableValue(requested, limit) ==
    IF ~U64Small(limit) \/ U64Nat(limit) >= requested THEN requested
    ELSE IF U64Nat(limit) < 3000 THEN U64Nat(limit) \div 2
    ELSE IF U64Nat(limit) > 8000 THEN 3000
    ELSE U64Nat(limit) - 100

\* C1: for every requested batch size and every limit, infer_batch_size
\* returns, and returns the value of the table.
C1_ReturnsTableValue ==
    infer.called =>
        /\ ~infer.out.panicked
        /\ infer.out.value = TableValue(opts.batch_size, infer.limit)

\* Whenever infer_batch_size does return, its value is the table's.
TableValueWhenReturned ==
    pc = "infer_returned" => infer.out.value = TableValue(opts.batch_size, infer.limit)

\* C2: with a requested batch size >= 1 and a limit >= 1, the value returned
\* is at least 1 and at most max(requested, limit).
C2_WithinOneAndMax ==
    (/\ pc = "infer_returned"
     /\ opts.batch_size >= 1
     /\ U64Le(U64(1), infer.limit)) =>
        /\ infer.out.value >= 1
        /\ \/ infer.out.value <= opts.batch_size
           \/ U64Le(U64(infer.out.value), infer.limit)

\* C4: no computation of infer_batch_size overflows or underflows, whatever
\* the limit, up to u64::MAX and below 100.
C4_NoOverflow == infer.called => ~infer.out.overflowed

-----------------------------------------------------------------------------
(* Claims about parse_addresses, under SpecParse *)

RECURSIVE Flatten(_)
Flatten(ss) == IF ss = <<>> THEN <<>> ELSE Head(ss) \o Flatten(Tail(ss))

\* The block of a CIDR entry: 2^bits addresses, from the network address up to
\* the broadcast address.
Block(e) == [i \in 1 .. 2 ^ e.bits |-> e.net + (i - 1)]

\* A name that one of the two lookups resolves.
Resolvable(e) == e.kind = "name" /\ e.name \in env.sys_names \cup env.dns_names

\* An entry that is resolved where it stands: a literal, a block, a hostname.
Direct(e) == e.kind = "cidr" \/ Resolvable(e)

\* A path to a hosts file that can be read.
HostsFile(e) == ~Direct(e) /\ IsFile(e) /\ env.files[e.name].readable

\* What one line of a hosts file contributes.
OfLine(e) == IF e.kind = "cidr" THEN Block(e) ELSE parse_address(e)

\* What one entry of opts.addresses contributes.
Contribution(e) ==
    IF e.kind = "cidr" THEN Block(e)
    ELSE IF Resolvable(e) THEN parse_address(e)
    ELSE IF HostsFile(e)
    THEN Flatten([i \in DOMAIN env.files[e.name].lines |-> OfLine(env.files[e.name].lines[i])])
    ELSE <<>>

ContributionsOf(entries) == Flatten([i \in DOMAIN entries |-> Contribution(entries[i])])

\* C6 as claimed: the addresses follow the input entries, entry by entry.
C6_FollowsInputOrder ==
    pc = "parse_returned" => ips = ContributionsOf(opts.addresses)

\* C6: the addresses of the directly resolved entries (literals, CIDR blocks,
\* hostnames) come first, in input order, then those of the hosts files, in
\* input order; a CIDR entry contributes its whole block, ascending, network
\* and broadcast addresses included.
C6_DirectThenFiles ==
    pc = "parse_returned" =>
        ips = ContributionsOf(SelectSeq(opts.addresses, Direct))
              \o ContributionsOf(SelectSeq(opts.addresses, HostsFile))

\* A hosts file that contributes, given before a CIDR block.
C6_Witness ==
    /\ pc = "parse_returned"
    /\ Len(opts.addresses) >= 2
    /\ HostsFile(opts.addresses[1])
    /\ Contribution(opts.addresses[1]) # <<>>
    /\ opts.addresses[2].kind = "cidr"
    /\ opts.addresses[2].bits > 0
    /\ ips = Block(opts.addresses[2]) \o Contribution(opts.addresses[1])

\* C7: a hostname entry contributes at most one address, whichever lookup
\* answers.
C7_OneAddressPerHostname ==
    (/\ pc = "parse_returned"
     /\ \A i \in DOMAIN opts.addresses :
           opts.addresses[i].kind = "name" /\ ~IsFile(opts.addresses[i])) =>
        Len(ips) <= Len(opts.addresses)

\* The entries dropped: on the command line, and on the lines of the hosts
\* files that were read.
Unresolvable(e) == ~Direct(e) /\ ~HostsFile(e)

DroppedOnCommandLine == SelectSeq(opts.addresses, Unresolvable)

LinesOf(e) == env.files[e.name].lines

DroppedInFiles ==
    LET read == SelectSeq(opts.addresses, HostsFile)
    IN Flatten([i \in DOMAIN read |-> SelectSeq(LinesOf(read[i]), Unresolvable)])

\* C8: the addresses returned are exactly those of the resolvable entries, and
\* there is one "could not be resolved" warning for every entry dropped, on
\* the command line or in a hosts file.
C8_EveryDropWarned ==
    pc = "parse_returned" =>
        LET dropped == DroppedOnCommandLine \o DroppedInFiles
        IN /\ ips = ContributionsOf(SelectSeq(opts.addresses, Direct))
                    \o ContributionsOf(SelectSeq(opts.addresses, HostsFile))
           /\ Len(warnings) = Len(dropped)
           /\ \A i \in DOMAIN dropped : CouldNotBeResolved(dropped[i]) \in Range(warnings)

\* The part of C8 that holds: the entries dropped on the command line are
\* warned about, one warning each, and nothing else is.
CommandLineDropsWarned ==
    pc = "parse_returned" =>
        warnings = [i \in DOMAIN DroppedOnCommandLine |->
                        CouldNotBeResolved(DroppedOnCommandLine[i])]

-----------------------------------------------------------------------------
(* Claims about main, under Spec *)

Ended == pc \in {"exited", "panicked"}

\* C3: the Scanner is never constructed with batch_size = 0: a requested or
\* inferred batch size of 0 aborts the run before the engine starts.
C3_ScannerBatchSizeNonZero == scanner.built => scanner.batch_size >= 1

\* Nothing after the resolution of the hosts has happened.
NothingLater ==
    /\ ulimit.setrlimit = "none"
    /\ ~infer.called
    /\ ~scanner.built
    /\ scan.runs = 0
    /\ report = NoReport

\* C5: with no host resolved the process exits with 1 and no later step ever
\* happens; with a host resolved the scan runs exactly once, and the process
\* ends with 0 also when the scan finds nothing.
C5_ExitCodes ==
    /\ exit_code = 1 => ips = <<>> /\ NothingLater
    /\ Ended /\ ips = <<>> => exit_code = 1 /\ NothingLater
    /\ Ended /\ ips # <<>> =>
          /\ scan.runs = 1
          /\ scan.result = <<>> => exit_code = 0

\* The part of C5 that holds: without hosts, exit code 1 and nothing later; a
\* run that gets to the scan scans once and, finding nothing, ends with 0.
ExitCodesUnlessPanicked ==
    /\ exit_code = 1 => ips = <<>> /\ NothingLater
    /\ Ended /\ ips = <<>> => exit_code = 1 /\ NothingLater
    /\ scan.runs <= 1
    /\ pc = "exited" /\ ips # <<>> =>
          /\ scan.runs = 1
          /\ scan.result = <<>> => exit_code = 0

Ascending(ports) == \A i, j \in DOMAIN ports : i < j => ports[i] < ports[j]

\* What main printed or handed to nmap.
Emitted == report.printed \o report.nmap

\* C9: the output has exactly one entry for every IP with an open socket, the
\* entry holds exactly the ports of that IP's sockets, and these are in
\* ascending order.
C9_PortsGroupedAndSorted ==
    pc = "exited" /\ report.grouped =>
        /\ {Emitted[i].ip : i \in DOMAIN Emitted} = {s.ip : s \in Range(scan.result)}
        /\ \A i, j \in DOMAIN Emitted : i # j => Emitted[i].ip # Emitted[j].ip
        /\ \A i \in DOMAIN Emitted :
              /\ Range(Emitted[i].ports) =
                    {s.port : s \in {t \in Range(scan.result) : t.ip = Emitted[i].ip}}
              /\ Ascending(Emitted[i].ports)

\* The part of C9 that holds: the grouping, with every port once.
PortsGrouped ==
    pc = "exited" /\ report.grouped =>
        /\ {Emitted[i].ip : i \in DOMAIN Emitted} = {s.ip : s \in Range(scan.result)}
        /\ \A i, j \in DOMAIN Emitted : i # j => Emitted[i].ip # Emitted[j].ip
        /\ \A i \in DOMAIN Emitted :
              /\ Range(Emitted[i].ports) =
                    {s.port : s \in {t \in Range(scan.result) : t.ip = Emitted[i].ip}}
              /\ Len(Emitted[i].ports) = Cardinality(Range(Emitted[i].ports))

\* C10: adjust_ulimit_size sets both limits to the N asked for and returns N;
\* when the kernel refuses it warns, leaves the limits alone and returns the
\* soft limit; without --ulimit it changes nothing and returns the soft limit.
\* It never aborts, it returns the soft limit in force, and that is the limit
\* infer_batch_size receives.
C10_AdjustUlimitBestEffort ==
    [][/\ (pc = "parsed" /\ pc' = "ulimit_adjusted") =>
             /\ exit_code' = -1
             /\ ulimit'.value = rlim'.soft
             /\ opts.ulimit.some => ulimit'.setrlimit \in {"ok", "err"}
             /\ ulimit'.setrlimit = "ok" =>
                   /\ rlim' = [soft |-> opts.ulimit.val, hard |-> opts.ulimit.val]
                   /\ ulimit'.value = opts.ulimit.val
                   /\ warnings' = warnings
             /\ ulimit'.setrlimit = "err" =>
                   /\ rlim' = rlim
                   /\ ulimit'.value = rlim.soft
                   /\ warnings' = Append(warnings, SetUlimitFailed)
             /\ ~opts.ulimit.some =>
                   /\ ulimit'.setrlimit = "none"
                   /\ rlim' = rlim
                   /\ ulimit'.value = rlim.soft
                   /\ warnings' = warnings
       /\ (pc = "ulimit_adjusted" /\ pc' # pc) =>
             /\ infer'.called
             /\ infer'.limit = rlim.soft
             /\ rlim' = rlim]_vars

\* The kernel refused the limit asked for, and infer_batch_size went on with
\* the soft limit there was.
C10_Witness ==
    /\ infer.called
    /\ opts.ulimit.some
    /\ ulimit.setrlimit = "err"
    /\ SetUlimitFailed \in Range(warnings)
    /\ infer.limit = rlim.soft
    /\ infer.limit # opts.ulimit.val

====
